---- MODULE Spec2Model ----
(***************************************************************************)
(* A model of neural-lam's data layer: the MultiZarrDatastore              *)
(* (src/neural_lam/datastore/multizarr/store.py) and the WeatherDataset /  *)
(* TrainingSample (src/neural_lam/weather_dataset.py).                     *)
(*                                                                         *)
(* Arrays are modelled by their dimension names, their sizes and, along    *)
(* the time axis, by the identity of the source step every entry holds;    *)
(* the floating point payload is not modelled.  Python values that may be  *)
(* None or absent from a mapping are tagged records.                       *)
(***************************************************************************)
EXTENDS Integers, Sequences, FiniteSets, TLC

VARIABLES
    config,     \* MultiZarrDatastore._config: the block of the category at hand
    zarr,       \* what open_zarrs finds on disk
    dataset,    \* the xarray object a datastore pipeline is working on
    ds,         \* the WeatherDataset object
    module,     \* the WeatherDataModule object
    cache,      \* the entries of the datastore's functools caches
    workers,    \* per worker, the call it is in and how far it got
    seen,       \* per sample index, the first sample a call returned for it
    ret         \* the last call: its name, its arguments and what it gave back

vars == <<config, zarr, dataset, ds, module, cache, workers, seen, ret>>

(***************************************************************************)
(* Bounds of the model.                                                    *)
(***************************************************************************)
MaxVars == 2        \* longest variable list of a category
MaxLevels == 2      \* longest level list of a category

(***************************************************************************)
(* Python values.                                                          *)
(***************************************************************************)
Absent == [tag |-> "absent", val |-> <<>>]      \* key not in the mapping
None == [tag |-> "None", val |-> <<>>]          \* yaml null
List(s) == [tag |-> "list", val |-> s]

\* dict.get(key, default): the default only when the key is absent
PyGet(entry, default) == IF entry = Absent THEN default ELSE entry

\* x or []: [] when x is None or an empty list
PyOrEmpty(x) == IF x = None \/ x.val = <<>> THEN List(<<>>) ELSE x

\* len(x) if x is not None else 0
PyLenOrZero(x) == IF x # None THEN Len(x.val) ELSE 0

\* the sequences without repetition over S, of length at most n
RECURSIVE SeqsUpTo(_, _)
SeqsUpTo(S, n) ==
    IF n = 0 THEN {<<>>}
    ELSE LET shorter == SeqsUpTo(S, n - 1)
         IN  shorter \cup
             {Append(s, x) : <<s, x>> \in
                 {p \in shorter \X S : \A i \in 1..Len(p[1]) : p[1][i] # p[2]}}

\* the entries of seq s flattened: s is a sequence of sequences
RECURSIVE Flatten(_)
Flatten(s) == IF s = <<>> THEN <<>> ELSE Head(s) \o Flatten(Tail(s))

Idle == [op |-> "none"]

\* what a call gives back: a value, or the exception it raised
Ok(v) == [exc |-> "none", value |-> v]
Raise(e) == [exc |-> e, value |-> <<>>]

Min(a, b) == IF a < b THEN a ELSE b
Max(a, b) == IF a > b THEN a ELSE b

\* seq[a:b] of Python: negative bounds count from the end, all bounds are clipped
PySlice(s, a, b) ==
    LET n == Len(s)
        lo == IF a < 0 THEN Max(a + n, 0) ELSE Min(a, n)
        hi == IF b < 0 THEN Max(b + n, 0) ELSE Min(b, n)
    IN  SubSeq(s, lo + 1, hi)

(***************************************************************************)
(* MultiZarrDatastore: variable names and counts of a category.            *)
(***************************************************************************)
SurfacePool == {"u10", "v10"}
AtmospherePool == {"temperature", "z"}
LevelPool == {850, 500}

ConfigValues(pool, n) == {Absent, None} \cup {List(s) : s \in SeqsUpTo(pool, n)}

\* f"{var}_{level}"
LevelName(var, level) == <<var, "_", level>>

\* the name of a surface variable, as it stands in the config
SurfaceName(var) == <<var>>

GetVarsNamesLevelMajor(cfg) ==
    LET surface == PyOrEmpty(PyGet(cfg.surface_vars, None)).val
        atm == PyOrEmpty(PyGet(cfg.atmosphere_vars, None)).val
        levels == PyOrEmpty(PyGet(cfg.levels, None)).val
    IN  [i \in 1..Len(surface) |-> SurfaceName(surface[i])] \o
        Flatten([l \in 1..Len(levels) |->
                    [v \in 1..Len(atm) |-> LevelName(atm[v], levels[l])]])

\* get_vars_names(category)
GetVarsNames(cfg) ==
    LET surface == PyOrEmpty(PyGet(cfg.surface_vars, None)).val
        atm == PyOrEmpty(PyGet(cfg.atmosphere_vars, None)).val
        levels == PyOrEmpty(PyGet(cfg.levels, None)).val
    IN  [i \in 1..Len(surface) |-> SurfaceName(surface[i])] \o
        Flatten([v \in 1..Len(atm) |->
                    [l \in 1..Len(levels) |-> LevelName(atm[v], levels[l])]])

GetNumDataVarsSum(cfg) ==
    PyLenOrZero(PyGet(cfg.surface_vars, List(<<>>)))
    + PyLenOrZero(PyGet(cfg.atmosphere_vars, List(<<>>)))
    + PyLenOrZero(PyGet(cfg.levels, List(<<>>)))

\* get_num_data_vars(category)
GetNumDataVars(cfg) ==
    LET surface_vars == PyGet(cfg.surface_vars, List(<<>>))
        atmosphere_vars == PyGet(cfg.atmosphere_vars, List(<<>>))
        levels == PyGet(cfg.levels, List(<<>>))
        surface_vars_count == PyLenOrZero(surface_vars)
        atmosphere_vars_count == PyLenOrZero(atmosphere_vars)
        levels_count == PyLenOrZero(levels)
    IN  surface_vars_count + atmosphere_vars_count * levels_count

VarsConfigs ==
    [surface_vars : ConfigValues(SurfacePool, MaxVars),
     atmosphere_vars : ConfigValues(AtmospherePool, MaxVars),
     levels : ConfigValues(LevelPool, MaxLevels),
     window : {Absent},
     dims : {<<>>}]

InitVars ==
    /\ config \in VarsConfigs
    /\ zarr = Idle
    /\ dataset = Idle
    /\ ds = Idle
    /\ module = Idle /\ cache = Idle /\ workers = Idle /\ seen = Idle
    /\ ret = Idle

CallGetNumDataVars ==
    /\ ret' = [op |-> "get_num_data_vars", out |-> Ok(GetNumDataVars(config))]
    /\ UNCHANGED <<config, zarr, dataset, ds, module, cache, workers, seen>>

CallGetVarsNames ==
    /\ ret' = [op |-> "get_vars_names", out |-> Ok(GetVarsNames(config))]
    /\ UNCHANGED <<config, zarr, dataset, ds, module, cache, workers, seen>>

NextVars == CallGetNumDataVars \/ CallGetVarsNames

SpecVars == InitVars /\ [][NextVars]_vars

\* the length a config list counts for: nothing when absent or null
ListLen(entry) == IF entry.tag = "list" THEN Len(entry.val) ELSE 0

\* C6: get_num_data_vars(category) is len(surface_vars) +
\* len(atmosphere_vars) * len(levels), an absent or null list counting as empty.
C6_NumDataVars ==
    ret.op = "get_num_data_vars" =>
        ret.out.value = ListLen(config.surface_vars)
                    + ListLen(config.atmosphere_vars) * ListLen(config.levels)

\* a category with an absent list, a null list and a non-empty list was counted
C6_Witness ==
    /\ ret.op = "get_num_data_vars"
    /\ config.surface_vars = Absent
    /\ config.atmosphere_vars.tag = "list"
    /\ Len(config.atmosphere_vars.val) = 2
    /\ config.levels.tag = "list"
    /\ Len(config.levels.val) = 2
    /\ ret.out.value = 4

\* C7: get_vars_names(category) lists the surface variables in config order,
\* then var_level for each atmosphere variable in config order and, within a
\* variable, each level in config order; it is as long as get_num_data_vars.
C7_VarsNames ==
    ret.op = "get_vars_names" =>
        LET names == ret.out.value
            S == IF config.surface_vars.tag = "list"
                 THEN config.surface_vars.val ELSE <<>>
            A == IF config.atmosphere_vars.tag = "list"
                 THEN config.atmosphere_vars.val ELSE <<>>
            L == IF config.levels.tag = "list" THEN config.levels.val ELSE <<>>
        IN  /\ Len(names) = GetNumDataVars(config)
            /\ Len(names) = Len(S) + Len(A) * Len(L)
            /\ \A i \in 1..Len(S) : names[i] = <<S[i]>>
            /\ \A v \in 1..Len(A) : \A l \in 1..Len(L) :
                   names[Len(S) + (v - 1) * Len(L) + l] = <<A[v], "_", L[l]>>

\* temperature with levels [850, 500] after one surface variable
C7_Witness ==
    /\ ret.op = "get_vars_names"
    /\ config.surface_vars = List(<<"u10">>)
    /\ config.atmosphere_vars = List(<<"temperature", "z">>)
    /\ config.levels = List(<<850, 500>>)
    /\ ret.out.value = << <<"u10">>, <<"temperature", "_", 850>>,
                      <<"temperature", "_", 500>>, <<"z", "_", 850>>,
                      <<"z", "_", 500>> >>

(***************************************************************************)
(* MultiZarrDatastore: the grid.  An array holds, per grid_index entry,    *)
(* the (y, x) grid point it carries (grid, empty before flattening).       *)
(***************************************************************************)
MaxNy == 2
MaxNx == 2
MaxCalls == 3       \* calls made on one array

\* .stack(grid_index=("y", "x")): the product of y and x, y outermost
RowMajor(ny, nx) ==
    Flatten([y \in 1..ny |-> [x \in 1..nx |-> <<y - 1, x - 1>>]])

DIMS_TO_KEEP == {"time", "grid_index", "variable"}

\* the dims mapping of the category's zarr configs: canonical name k, name on disk v
DimsMappings ==
    {<<>>,
     <<[k |-> "x", v |-> "lon"], [k |-> "y", v |-> "lat"]>>,
     <<[k |-> "grid_index", v |-> "cell"]>>}

\* the dimension names an archive may have on disk
DiskDims ==
    {{"time", "y", "x"}, {"y", "x"}, {"time", "lat", "lon"},
     {"time", "y", "x", "level"}, {"time", "cell"}}

\* the Dataset open_zarrs(category) returns
OpenZarrs(disk, category) ==
    [kind |-> "Dataset", dims |-> disk.dims, category |-> category,
     split |-> "none", time |-> IF "time" \in disk.dims THEN disk.time ELSE <<>>,
     ny |-> disk.ny, nx |-> disk.nx, grid |-> <<>>, cdims |-> {},
     nvars |-> 1, nwindow |-> 1, calls |-> <<>>]

\* _rename_dataset_dims_and_vars(category, dataset): a dimension named as on
\* disk takes its canonical name, unless that name is already a dimension
RenameDatasetDimsAndVars(cfg, arr) ==
    LET renamed(d) ==
            IF \E i \in 1..Len(cfg.dims) :
                   cfg.dims[i].v = d /\ cfg.dims[i].k \notin arr.dims
            THEN cfg.dims[CHOOSE i \in 1..Len(cfg.dims) :
                              cfg.dims[i].v = d /\ cfg.dims[i].k \notin arr.dims].k
            ELSE d
    IN  IF arr.kind = "DataArray" /\ "variable" \notin arr.dims
        THEN Raise("TypeError")         \* to_dataset("variable")
        ELSE Ok([arr EXCEPT !.dims = {renamed(d) : d \in @},
                            !.cdims = {renamed(d) : d \in @}])

StackGridUnchecked(cfg, arr) ==
    IF "x" \notin arr.dims \/ "y" \notin arr.dims
    THEN Raise("TypeError")
    ELSE Ok([arr EXCEPT !.dims = (@ \ {"x", "y"}) \cup {"grid_index"},
                        !.cdims = @ \ {"x", "y"},
                        !.grid = RowMajor(arr.ny, arr.nx),
                        !.calls = Append(@, [op |-> "stack", y |-> arr.ny, x |-> arr.nx])])
\* _stack_grid(ds).  The rename it attempts when x or y is missing is called
\* without the category argument, which is a TypeError.
StackGrid(cfg, arr) ==
    IF "grid_index" \in arr.dims
    THEN Raise("ValueError")            \* Grid dimensions already stacked.
    ELSE IF "x" \notin arr.dims \/ "y" \notin arr.dims
    THEN Raise("TypeError")
    ELSE Ok([arr EXCEPT !.dims = (@ \ {"x", "y"}) \cup {"grid_index"},
                        !.cdims = @ \ {"x", "y"},
                        !.grid = RowMajor(arr.ny, arr.nx),
                        !.calls = Append(@, [op |-> "stack", y |-> arr.ny, x |-> arr.nx])])

\* _convert_dataset_to_dataarray(dataset): to_array() stacks the data variables
\* along "variable"; dimensions only coordinates have do not reach the array
ConvertDatasetToDataarray(arr) ==
    IF arr.kind # "Dataset" THEN Ok(arr)
    ELSE IF arr.nvars = 0 THEN Raise("ValueError")      \* nothing to stack
    ELSE Ok([arr EXCEPT !.kind = "DataArray",
                        !.dims = (@ \ arr.cdims) \cup {"variable"},
                        !.cdims = {}])

\* _filter_dimensions(dataset, transpose_array=True); None is Ok(None)
FilterDimensions(cfg, arr) ==
    LET min_req_dims == DIMS_TO_KEEP \ {"time"}
        missing == ~(min_req_dims \subseteq (arr.dims \cup {"variable"}))
        renamed == RenameDatasetDimsAndVars(cfg, arr)
        stacked == IF renamed.exc = "none" THEN StackGrid(cfg, renamed.value)
                   ELSE renamed
        repaired == IF missing THEN stacked ELSE Ok(arr)
    IN  IF repaired.exc # "none" THEN repaired
        ELSE IF ~(min_req_dims \subseteq (repaired.value.dims \cup {"variable"}))
        THEN Ok(None)
        ELSE
        LET a == repaired.value
            dims_to_drop == (a.dims \cup {"variable"}) \ DIMS_TO_KEEP
            \* a data variable goes with any of its dimensions
            dropped == [a EXCEPT !.dims = @ \ dims_to_drop,
                                 !.cdims = @ \ dims_to_drop,
                                 !.nvars = IF dims_to_drop \subseteq a.cdims
                                           THEN @ ELSE 0]
        IN  IF a.kind = "DataArray" THEN Raise("AttributeError")   \* drop_dims
            ELSE ConvertDatasetToDataarray(dropped)

\* _reshape_grid_to_2d(dataset, grid_shape): the (y, x) multi-index is built on
\* a dimension named "grid" and that dimension is unstacked
ReshapeGridTo2d(arr, grid_shape) ==
    IF "grid" \in arr.dims
    THEN IF grid_shape.y * grid_shape.x # Len(arr.grid)
         THEN Raise("ValueError")
         ELSE Ok([arr EXCEPT !.dims = (@ \ {"grid"}) \cup {"y", "x"},
                             !.ny = grid_shape.y, !.nx = grid_shape.x,
                             !.grid = <<>>,
                             !.calls = Append(@, [op |-> "reshape", y |-> grid_shape.y, x |-> grid_shape.x])])
    ELSE IF arr.kind = "DataArray"
    THEN Raise("ValueError")    \* a DataArray takes no coordinate of a new dimension
    ELSE IF \/ "y" \in arr.dims \ arr.cdims /\ grid_shape.y # arr.ny
            \/ "x" \in arr.dims \ arr.cdims /\ grid_shape.x # arr.nx
    THEN Raise("ValueError")    \* conflicting sizes for y or x
    ELSE Ok([arr EXCEPT !.dims = @ \cup {"y", "x"},
                        !.cdims = @ \cup ({"y", "x"} \ arr.dims),
                        !.calls = Append(@, [op |-> "reshape", y |-> grid_shape.y, x |-> grid_shape.x])])

(***************************************************************************)
(* MultiZarrDatastore.apply_window.  A time axis is a sequence of entries  *)
(* [t, src]: the time label and the forcing snapshots the entry holds,     *)
(* each named by the label it has on disk (one snapshot before windowing,  *)
(* NaN where a window reaches outside the array).                          *)
(***************************************************************************)
MaxT == 5           \* most time steps of a split
MaxWindow == 4      \* largest configured forcing window
NaN == 0 - 1

Abs(a) == IF a < 0 THEN 0 - a ELSE a

\* a time axis read from disk: one snapshot per label
RawAxis(labels) == [i \in 1..Len(labels) |-> [t |-> labels[i], src |-> <<labels[i]>>]]

\* the labels start, start + step, ... (n of them)
Labels(start, step, n) == [i \in 1..n |-> start + (i - 1) * step]

\* .sel(time=state_time, method="nearest"): per requested label the entry whose
\* label is nearest, the larger label on a tie
SelNearest(axis, state_time) ==
    [i \in 1..Len(state_time) |->
        LET want == state_time[i]
            best == CHOOSE j \in 1..Len(axis) :
                        \A k \in 1..Len(axis) :
                            \/ Abs(axis[j].t - want) < Abs(axis[k].t - want)
                            \/ /\ Abs(axis[j].t - want) = Abs(axis[k].t - want)
                               /\ axis[j].t >= axis[k].t
        IN  axis[best]]

\* .pad(time=(before, after), mode="edge"): the first and last entry repeated
PadEdge(axis, before, after) ==
    [i \in 1..before |-> axis[1]] \o axis \o [i \in 1..after |-> axis[Len(axis)]]

RollingConstructTrailing(axis, window) ==
    [i \in 1..Len(axis) |->
        [t |-> axis[i].t,
         src |-> Flatten([j \in 1..window |->
                    LET k == i + (j - 1) - (window - 1)
                    IN  IF k \in 1..Len(axis) THEN axis[k].src
                        ELSE [m \in 1..Len(axis[i].src) |-> NaN]])]]

\* .rolling(time=window, center=True).construct("window"): entry i holds the
\* entries i - window // 2 .. i - window // 2 + window - 1, NaN outside the axis
RollingConstruct(axis, window) ==
    [i \in 1..Len(axis) |->
        [t |-> axis[i].t,
         src |-> Flatten([j \in 1..window |->
                    LET k == i + (j - 1) - (window \div 2)
                    IN  IF k \in 1..Len(axis) THEN axis[k].src
                        ELSE [m \in 1..Len(axis[i].src) |-> NaN]])]]

\* .isel(time=slice(window // 2, -window // 2 + 1))
Trim(axis, window) == PySlice(axis, window \div 2, ((0 - window) \div 2) + 1)

\* sel(time=slice(start, end)): the labels of the split, both ends included
ApplyTimeSplit(axis, split) ==
    SelectSeq(axis, LAMBDA e : split.start <= e.t /\ e.t <= split.end)

\* _apply_time_split(dataset, split)
ApplyTimeSplitTo(disk, arr, split) ==
    IF "time" \notin arr.dims THEN Raise("KeyError")
    ELSE Ok([arr EXCEPT !.time = ApplyTimeSplit(@, disk.splits[split]),
                        !.split = split])

\* apply_window(category, dataset) on a DataArray
ApplyWindow(cfg, disk, arr) ==
    LET state == IF arr.split = "none" THEN <<>>
                 ELSE ApplyTimeSplit(disk.state_time, disk.splits[arr.split])
        state_time == [i \in 1..Len(state) |-> state[i].t]
        window == cfg.window.val
        selected == SelNearest(arr.time, state_time)
        padded == PadEdge(selected, window \div 2, window \div 2)
        rolled == RollingConstruct(padded, window)
    IN  IF arr.split = "none"
        THEN Raise("KeyError")      \* dataset.attrs["split"]
        ELSE IF "time" \notin arr.dims \/ (arr.time = <<>> /\ state_time # <<>>)
        THEN Raise("KeyError")      \* no time axis, or no label to select from
        ELSE IF state_time = <<>> /\ window \div 2 > 0
        THEN Raise("ValueError")    \* edge padding of an empty axis
        ELSE Ok([arr EXCEPT !.time = Trim(rolled, window),
                            !.dims = (@ \ {"variable"}) \cup {"variable_window"},
                            !.nwindow = @ * window])

\* a DataArray of dims (time, grid_index, variable) as _filter_dimensions leaves it
TimeSeriesArray(category, split, axis, ny, nx, nvars) ==
    [kind |-> "DataArray", dims |-> {"time", "grid_index", "variable"},
     category |-> category, split |-> split, time |-> axis,
     ny |-> ny, nx |-> nx, grid |-> RowMajor(ny, nx),
     cdims |-> {}, nvars |-> nvars, nwindow |-> 1, calls |-> <<>>]

DiskSteps == MaxT + 1           \* time steps of the archives on disk
CoarseStep == 3                 \* cadence of a forcing archive coarser than the state

WindowSplits ==
    {sp \in [start : 0..1, end : 0..(DiskSteps - 1)] :
        sp.start <= sp.end /\ sp.end - sp.start + 1 <= MaxT}

ForcingLabels == {Labels(0, 1, DiskSteps), Labels(0, CoarseStep, 2)}

InitWindow ==
    /\ \E w \in 1..MaxWindow :
          config = [surface_vars |-> List(<<"u10">>), atmosphere_vars |-> Absent,
                    levels |-> Absent, window |-> [tag |-> "int", val |-> w],
                    dims |-> <<>>]
    /\ \E sp \in WindowSplits, labels \in ForcingLabels :
          /\ zarr = [state_time |-> RawAxis(Labels(0, 1, DiskSteps)),
                     splits |-> [train |-> sp], dims |-> {"time", "y", "x"},
                     time |-> RawAxis(labels), ny |-> 1, nx |-> 1]
          /\ dataset = TimeSeriesArray("forcing", "train",
                            ApplyTimeSplit(RawAxis(labels), sp), 1, 1, 1)
    /\ ds = Idle
    /\ module = Idle /\ cache = Idle /\ workers = Idle /\ seen = Idle
    /\ ret = Idle

CallApplyWindow ==
    /\ ret' = [op |-> "apply_window", out |-> ApplyWindow(config, zarr, dataset)]
    /\ UNCHANGED <<config, zarr, dataset, ds, module, cache, workers, seen>>

NextWindow == CallApplyWindow

SpecWindow == InitWindow /\ [][NextWindow]_vars

\* the state time labels of the split apply_window aligns to
StateTimes == ApplyTimeSplit(zarr.state_time, zarr.splits[dataset.split])

\* the forcing snapshot aligned to state step i, the first or last one when i is
\* off the axis
SnapshotAt(i) ==
    LET state_time == [k \in 1..Len(StateTimes) |-> StateTimes[k].t]
        aligned == SelNearest(dataset.time, state_time)
    IN  aligned[Max(1, Min(Len(aligned), i))].src[1]

\* C5: with window = 3 the window apply_window produces at step t holds the
\* forcing snapshots of steps t-1, t, t+1 in that order, the first or last
\* snapshot standing in for a step off the axis; every step has its window.
C5_WindowThree ==
    (ret.op = "apply_window" /\ config.window.val = 3 /\ dataset.time # <<>>) =>
        /\ ret.out.exc = "none"
        /\ Len(ret.out.value.time) = Len(StateTimes)
        /\ \A t \in 1..Len(StateTimes) :
               ret.out.value.time[t].src =
                   <<SnapshotAt(t - 1), SnapshotAt(t), SnapshotAt(t + 1)>>

\* a window of an interior step, with the first and the last step's windows
C5_Witness ==
    /\ ret.op = "apply_window"
    /\ config.window.val = 3
    /\ ret.out.exc = "none"
    /\ Len(ret.out.value.time) = 4
    /\ ret.out.value.time[1].src = <<1, 1, 2>>
    /\ ret.out.value.time[2].src = <<1, 2, 3>>
    /\ ret.out.value.time[4].src = <<3, 4, 4>>

(***************************************************************************)
(* MultiZarrDatastore.get_dataarray and the steps it chains.               *)
(***************************************************************************)
\* the next step of a pipeline, unless the one before raised
Then(r, F(_)) == IF r.exc = "none" THEN F(r.value) ELSE r

\* _extract_atmosphere_vars(category, ds): one variable per (var, level)
ExtractAtmosphereVars(cfg, arr) ==
    LET atm == cfg.atmosphere_vars.val
        renamed == IF "level" \notin arr.dims /\ atm # <<>>
                   THEN RenameDatasetDimsAndVars(cfg, arr) ELSE Ok(arr)
    IN  Then(renamed, LAMBDA a :
            IF atm = <<>> THEN Ok([a EXCEPT !.nvars = 0])
            ELSE IF cfg.levels = Absent THEN Raise("KeyError")
            ELSE IF cfg.levels = None THEN Raise("TypeError")
            ELSE IF cfg.levels.val # <<>> /\ "level" \notin a.dims
            THEN Raise("KeyError")
            ELSE Ok([a EXCEPT !.dims = @ \ {"level"},
                              !.nvars = Len(atm) * Len(cfg.levels.val)]))

\* _extract_vars(category, ds): the surface variables merged with the
\* per-level atmosphere variables; a Dataset without variables is falsy
ExtractVars(cfg, arr) ==
    LET surface_vars == PyGet(cfg.surface_vars, None)
        atmosphere_vars == PyGet(cfg.atmosphere_vars, None)
        n_surface == IF surface_vars # None THEN Len(surface_vars.val) ELSE 0
        atmosphere == IF atmosphere_vars # None
                      THEN ExtractAtmosphereVars(cfg, arr)
                      ELSE Ok([arr EXCEPT !.nvars = 0])
    IN  Then(atmosphere, LAMBDA a :
            IF n_surface + a.nvars = 0 THEN Raise("ValueError")
            ELSE Ok([a EXCEPT !.dims =
                                  (IF n_surface > 0 THEN arr.dims \ {"level"} ELSE {})
                                  \cup (IF a.nvars > 0 THEN a.dims ELSE {}),
                              !.nvars = n_surface + a.nvars]))

FinishDataarrayKeepsTime(cfg, disk, category, apply_windowing, d) ==
    LET windowing == cfg.window # Absent /\ apply_windowing
    IN  IF d = None
        THEN IF windowing THEN Raise("KeyError")
             ELSE IF category = "static" THEN Raise("AttributeError")
             ELSE Ok(None)
        ELSE IF windowing THEN ApplyWindow(cfg, disk, d) ELSE Ok(d)
\* the window and static steps that end get_dataarray.  apply_window opens the
\* archive anew for None, and that Dataset has no split; None has no dims
FinishDataarray(cfg, disk, category, apply_windowing, d) ==
    LET windowing == cfg.window # Absent /\ apply_windowing
    IN  IF d = None
        THEN IF windowing THEN Raise("KeyError")
             ELSE IF category = "static" THEN Raise("AttributeError")
             ELSE Ok(None)
        ELSE Then(IF windowing THEN ApplyWindow(cfg, disk, d) ELSE Ok(d),
                  LAMBDA w :
                      IF category = "static" /\ "time" \in w.dims
                      THEN Ok([w EXCEPT !.dims = @ \ {"time"}, !.time = <<>>])
                      ELSE Ok(w))

\* get_dataarray(category, split, apply_windowing)
GetDataarray(cfg, disk, category, split, apply_windowing) ==
    Then(ExtractVars(cfg, OpenZarrs(disk, category)), LAMBDA extracted :
    Then(IF category # "static" THEN ApplyTimeSplitTo(disk, extracted, split)
         ELSE Ok(extracted), LAMBDA in_split :
    Then(StackGrid(cfg, in_split), LAMBDA stacked :
    Then(RenameDatasetDimsAndVars(cfg, stacked), LAMBDA renamed :
    Then(FilterDimensions(cfg, renamed), LAMBDA filtered :
    Then(IF filtered = None THEN Ok(None)
         ELSE ConvertDatasetToDataarray(filtered), LAMBDA converted :
    FinishDataarray(cfg, disk, category, apply_windowing, converted)))))))

(***************************************************************************)
(* The grid operations called, in any order, on the array of a category.   *)
(***************************************************************************)
GridSplit == [start |-> 0, end |-> 1]

InitGrid ==
    /\ \E mapping \in DimsMappings :
          config = [surface_vars |-> List(<<"u10">>), atmosphere_vars |-> Absent,
                    levels |-> Absent, window |-> Absent, dims |-> mapping]
    /\ \E dims \in DiskDims, ny \in 1..MaxNy, nx \in 1..MaxNx :
          zarr = [state_time |-> RawAxis(Labels(0, 1, 2)),
                  splits |-> [train |-> GridSplit], dims |-> dims,
                  time |-> RawAxis(Labels(0, 1, 2)), ny |-> ny, nx |-> nx]
    /\ dataset = OpenZarrs(zarr, IF "time" \in zarr.dims THEN "state" ELSE "static")
    /\ ds = Idle
    /\ module = Idle /\ cache = Idle /\ workers = Idle /\ seen = Idle
    /\ ret = Idle

\* the caller keeps the array a call returned, and its own when the call raised
Kept(out) == IF out.exc = "none" /\ out.value # None THEN out.value ELSE dataset

CallStackGrid ==
    /\ Len(dataset.calls) < MaxCalls
    /\ LET out == StackGrid(config, dataset)
       IN  /\ ret' = [op |-> "_stack_grid", arg |-> dataset, out |-> out]
           /\ dataset' = Kept(out)
    /\ UNCHANGED <<config, zarr, ds, module, cache, workers, seen>>

CallRenameDatasetDimsAndVars ==
    /\ LET out == RenameDatasetDimsAndVars(config, dataset)
       IN  /\ ret' = [op |-> "_rename_dataset_dims_and_vars", arg |-> dataset,
                      out |-> out]
           /\ dataset' = Kept(out)
    /\ UNCHANGED <<config, zarr, ds, module, cache, workers, seen>>

CallFilterDimensions ==
    /\ Len(dataset.calls) < MaxCalls
    /\ LET out == FilterDimensions(config, dataset)
       IN  /\ ret' = [op |-> "_filter_dimensions", arg |-> dataset, out |-> out]
           /\ dataset' = Kept(out)
    /\ UNCHANGED <<config, zarr, ds, module, cache, workers, seen>>

CallReshapeGridTo2d ==
    /\ Len(dataset.calls) < MaxCalls
    /\ \E grid_shape \in [y : 1..MaxNy, x : 1..MaxNx] :
          LET out == ReshapeGridTo2d(dataset, grid_shape)
          IN  /\ ret' = [op |-> "_reshape_grid_to_2d", arg |-> dataset, out |-> out]
              /\ dataset' = Kept(out)
    /\ UNCHANGED <<config, zarr, ds, module, cache, workers, seen>>

CallGetDataarray ==
    /\ LET opened == OpenZarrs(zarr, dataset.category)
           out == GetDataarray(config, zarr, dataset.category, "train", TRUE)
       IN  /\ ret' = [op |-> "get_dataarray", arg |-> opened, out |-> out]
           /\ dataset' = IF out.exc = "none" /\ out.value # None
                         THEN out.value ELSE opened
    /\ UNCHANGED <<config, zarr, ds, module, cache, workers, seen>>

NextGrid ==
    \/ CallStackGrid
    \/ CallRenameDatasetDimsAndVars
    \/ CallFilterDimensions
    \/ CallReshapeGridTo2d
    \/ CallGetDataarray

SpecGrid == InitGrid /\ [][NextGrid]_vars

\* how often the grid of an array was flattened
Stackings(arr) == Cardinality({i \in 1..Len(arr.calls) : arr.calls[i].op = "stack"})

\* C8: an array is flattened at most once: _stack_grid on an array that has
\* the grid_index dimension raises and the array stays as it was, and no call,
\* the repair of _filter_dimensions included, returns an array flattened twice.
C8_StackedOnce ==
    /\ Stackings(dataset) <= 1
    /\ (ret.op # "none" /\ ret.out.exc = "none" /\ ret.out.value # None)
           => Stackings(ret.out.value) <= 1
    /\ (ret.op = "_stack_grid" /\ "grid_index" \in ret.arg.dims)
           => (ret.out.exc = "ValueError" /\ dataset = ret.arg)
    /\ (ret.op = "_filter_dimensions" /\ "grid_index" \in ret.arg.dims
            /\ ret.out.exc = "none")
           => ret.out.value.calls = ret.arg.calls

\* _stack_grid was called on a flattened array that had been unstacked in between
C8_Witness ==
    /\ ret.op = "_stack_grid"
    /\ Len(ret.arg.calls) = 2
    /\ ret.arg.calls[1].op = "stack"
    /\ ret.arg.calls[2].op = "reshape"
    /\ ret.out.exc = "ValueError"

\* the repair path of _filter_dimensions flattened the grid
C8_WitnessRepair ==
    /\ ret.op = "_filter_dimensions"
    /\ "grid_index" \notin ret.arg.dims
    /\ ret.out.exc = "none"
    /\ Stackings(ret.out.value) = 1

\* C9: flattening an Ny x Nx grid gives grid point (y, x) the grid_index
\* y * Nx + x, and flattening, unstacking with _reshape_grid_to_2d and
\* flattening again gives the same mapping.
C9_RowMajorRoundTrip ==
    /\ (ret.op = "_stack_grid" /\ ret.out.exc = "none") =>
           \A y \in 0..(ret.arg.ny - 1), x \in 0..(ret.arg.nx - 1) :
               ret.out.value.grid[y * ret.arg.nx + x + 1] = <<y, x>>
    /\ (/\ ret.op = "_stack_grid"
        /\ Len(ret.arg.calls) = 2
        /\ ret.arg.calls[1].op = "stack"
        /\ ret.arg.calls[2] = [op |-> "reshape", y |-> ret.arg.ny, x |-> ret.arg.nx])
           => /\ ret.out.exc = "none"
              /\ ret.out.value.grid = ret.arg.grid

\* the first half of C9 alone: the grid_index of (y, x) is y * Nx + x
C9_RowMajor ==
    (ret.op = "_stack_grid" /\ ret.out.exc = "none") =>
        /\ Len(ret.out.value.grid) = ret.arg.ny * ret.arg.nx
        /\ \A y \in 0..(ret.arg.ny - 1), x \in 0..(ret.arg.nx - 1) :
               ret.out.value.grid[y * ret.arg.nx + x + 1] = <<y, x>>

\* C11: when get_dataarray meets an archive whose required dimensions are
\* missing (its grid is not under the names x and y), the rename-and-restack
\* repair runs once and no exception is raised: the call continues with the
\* repaired, once-flattened array if the dims mapping recovers the dimensions,
\* and returns None if it does not.
C11_RepairOnce ==
    (ret.op = "get_dataarray" /\ ~({"x", "y"} \subseteq ret.arg.dims)) =>
        LET renamed == RenameDatasetDimsAndVars(config, ret.arg).value.dims
        IN  /\ ret.out.exc = "none"
            /\ IF {"x", "y"} \subseteq renamed \/ "grid_index" \in renamed
               THEN /\ ret.out.value # None
                    /\ "grid_index" \in ret.out.value.dims
                    /\ Stackings(ret.out.value) <= 1
               ELSE ret.out.value = None

\* what the code does instead: on such an archive get_dataarray raises the
\* TypeError of _stack_grid, and neither it nor _filter_dimensions returns None
C11_RaisesInstead ==
    /\ (ret.op = "get_dataarray" /\ ~({"x", "y"} \subseteq ret.arg.dims))
           => ret.out.exc = "TypeError"
    /\ (ret.op \in {"get_dataarray", "_filter_dimensions"} /\ ret.out.exc = "none")
           => ret.out.value # None

(***************************************************************************)
(* MultiZarrDatastore.get_normalization_stats.  A statistics Dataset is    *)
(* its data variables and the labels of its variable and forcing_variable  *)
(* coordinates; config is the whole configuration here.                    *)
(***************************************************************************)
\* f"{var}_{i}" for a window position i
WindowName(var, i) == var \o <<"_", i>>

\* f"{var}_{i}" for var in vars for i in range(window)
WindowNames(names, window) ==
    Flatten([v \in 1..Len(names) |->
                [i \in 1..window |-> WindowName(names[v], i - 1)]])

\* the values of a sequence
Range(s) == {s[i] : i \in 1..Len(s)}

\* xr.merge of two statistics Datasets
MergeStats(a, b) ==
    [data_vars |-> a.data_vars \cup b.data_vars,
     variable |-> a.variable \cup b.variable,
     forcing_variable |-> a.forcing_variable \cup b.forcing_variable]

\* _load_and_merge_stats(): None when the loop over the sources never runs
RECURSIVE MergeSources(_, _, _)
MergeSources(sources, disk, combined) ==
    IF sources = <<>> THEN Ok(combined)
    ELSE IF Head(sources).path \notin disk.exists THEN Raise("FileNotFoundError")
    ELSE MergeSources(Tail(sources), disk,
                      IF combined = None THEN disk.stats[Head(sources).path]
                      ELSE MergeStats(disk.stats[Head(sources).path], combined))

LoadAndMergeStats(cfg, disk) ==
    IF cfg.normalization = Absent THEN Raise("KeyError")
    ELSE IF cfg.normalization = None THEN Raise("TypeError")
    ELSE MergeSources(cfg.normalization.val, disk, None)

\* _rename_data_vars(combined_stats): a data variable named as in a source's
\* stats_vars mapping takes its canonical name
RenameDataVars(cfg, combined_stats) ==
    LET mappings == Flatten([i \in 1..Len(cfg.normalization.val) |->
                                cfg.normalization.val[i].stats_vars])
        renamed(v) == IF \E i \in 1..Len(mappings) : mappings[i].v = v
                      THEN mappings[CHOOSE i \in 1..Len(mappings) :
                               mappings[i].v = v
                               /\ \A j \in (i + 1)..Len(mappings) : mappings[j].v # v].k
                      ELSE v
    IN  Ok([combined_stats EXCEPT !.data_vars = {renamed(v) : v \in @}])

\* _select_stats_by_category(combined_stats, category).  The forcing branch
\* reads self.utilities, self.vars_names and self["forcing"], which the class
\* does not define: cfg.accessors says whether a base class provides them.
SelectStatsByCategory(cfg, combined_stats, category) ==
    IF category = "state"
    THEN LET names == Range(GetVarsNames(cfg.state))
         IN  IF ~(names \subseteq combined_stats.variable) THEN Raise("KeyError")
             ELSE IF ~({"forcing_mean", "forcing_std"} \subseteq combined_stats.data_vars)
             THEN Raise("ValueError")       \* drop_vars of a missing variable
             ELSE Ok([combined_stats EXCEPT
                         !.variable = names,
                         !.data_vars = @ \ {"forcing_mean", "forcing_std"}])
    ELSE IF category = "forcing"
    THEN IF ~cfg.accessors THEN Raise("AttributeError")
         ELSE IF cfg.forcing.window = Absent THEN Raise("KeyError")
         ELSE
         LET exempt == IF cfg.non_normalized_vars = None THEN {}
                       ELSE Range(cfg.non_normalized_vars.val)
             forcing_vars == Range(WindowNames(GetVarsNames(cfg.forcing),
                                               cfg.forcing.window.val))
             normalized_vars == {v \in forcing_vars : v \notin exempt}
             non_normalized_vars == {v \in forcing_vars : v \in exempt}
             stats_normalized == [combined_stats EXCEPT
                                     !.forcing_variable = normalized_vars]
             stats_non_normalized == [combined_stats EXCEPT
                                         !.forcing_variable = non_normalized_vars]
             stats == IF non_normalized_vars # {}
                      THEN MergeStats(stats_normalized, stats_non_normalized)
                      ELSE stats_normalized
         IN  IF ~(forcing_vars \subseteq combined_stats.forcing_variable)
             THEN Raise("KeyError")
             ELSE IF ~({"forcing_mean", "forcing_std"} \subseteq combined_stats.data_vars)
             THEN Raise("KeyError")         \* stats_normalized[[...]]
             ELSE Ok(stats)
    ELSE Ok(None)

GetNormalizationStatsUnchecked(cfg, disk, category) ==
    [out |-> Then(LoadAndMergeStats(cfg, disk), LAMBDA combined_stats :
                IF combined_stats = None THEN Raise("AttributeError")
                ELSE Then(RenameDataVars(cfg, combined_stats), LAMBDA renamed :
                          SelectStatsByCategory(cfg, renamed, category))),
     printed |-> <<>>]
\* get_normalization_stats(category): what it gives back and what it prints
GetNormalizationStats(cfg, disk, category) ==
    LET combined == LoadAndMergeStats(cfg, disk)
    IN  [out |-> Then(combined, LAMBDA combined_stats :
                    IF combined_stats = None THEN Ok(None)
                    ELSE Then(RenameDataVars(cfg, combined_stats), LAMBDA renamed :
                              SelectStatsByCategory(cfg, renamed, category))),
         printed |-> IF /\ combined.exc = "none" /\ combined.value # None
                        /\ category \notin {"state", "forcing"}
                     THEN <<"Invalid category">> ELSE <<>>]

\* the state block of a MultiZarrDatastore config: two surface variables
StateConfig ==
    [surface_vars |-> List(<<"u10", "v10">>), atmosphere_vars |-> Absent,
     levels |-> Absent, window |-> Absent, dims |-> <<>>]

\* the forcing blocks of a MultiZarrDatastore config
ForcingConfigs ==
    {[surface_vars |-> List(names), atmosphere_vars |-> Absent, levels |-> Absent,
      window |-> w, dims |-> <<>>] :
        names \in SeqsUpTo(SurfacePool, MaxVars) \ {<<>>},
        w \in {Absent} \cup {[tag |-> "int", val |-> n] : n \in 1..MaxWindow}}

\* the entries of utilities.normalization.zarrs: path and stats_vars mapping
\* (canonical name k, name in the archive v)
NormalizationSources ==
    {[path |-> "state_stats.zarr", stats_vars |-> <<>>],
     [path |-> "forcing_stats.zarr",
      stats_vars |-> <<[k |-> "forcing_mean", v |-> "mean"],
                       [k |-> "forcing_std", v |-> "std"]>>],
     [path |-> "stats.zarr", stats_vars |-> <<>>]}

\* the statistics archives on disk
StatsArchives ==
    [p \in {"state_stats.zarr", "forcing_stats.zarr", "stats.zarr"} |->
        CASE p = "state_stats.zarr" ->
                [data_vars |-> {"state_mean", "state_std"},
                 variable |-> {<<"u10">>, <<"v10">>}, forcing_variable |-> {}]
          [] p = "forcing_stats.zarr" ->
                [data_vars |-> {"mean", "std"}, variable |-> {},
                 forcing_variable |-> Range(WindowNames(<< <<"u10">> >>, MaxWindow))]
          [] p = "stats.zarr" ->
                [data_vars |-> {"state_mean", "state_std", "forcing_mean", "forcing_std"},
                 variable |-> {<<"u10">>, <<"v10">>},
                 forcing_variable |->
                    Range(WindowNames(<< <<"u10">>, <<"v10">> >>, MaxWindow))]]

\* the values of non_normalized_vars
ExemptLists ==
    {None, List(<<>>), List(<< <<"u10", "_", 0>> >>),
     List(<< <<"v10", "_", 0>>, <<"toa", "_", 0>> >>)}

InitStats ==
    /\ \E forcing \in ForcingConfigs, exempt \in ExemptLists, accessors \in BOOLEAN,
          sources \in {Absent, None}
                      \cup {List(q) : q \in SeqsUpTo(NormalizationSources, 2)} :
          config = [state |-> StateConfig, forcing |-> forcing,
                    normalization |-> sources, non_normalized_vars |-> exempt,
                    accessors |-> accessors]
    /\ \E missing \in {{}, {"forcing_stats.zarr"}} :
          zarr = [exists |-> (DOMAIN StatsArchives) \ missing, stats |-> StatsArchives]
    /\ dataset = Idle
    /\ ds = Idle
    /\ module = Idle /\ cache = Idle /\ workers = Idle /\ seen = Idle
    /\ ret = Idle

CallGetNormalizationStats ==
    /\ \E category \in {"state", "forcing", "static"} :
          LET r == GetNormalizationStats(config, zarr, category)
          IN  ret' = [op |-> "get_normalization_stats", category |-> category,
                      out |-> r.out, printed |-> r.printed]
    /\ UNCHANGED <<config, zarr, dataset, ds, module, cache, workers, seen>>

NextStats == CallGetNormalizationStats

SpecStats == InitStats /\ [][NextStats]_vars

ForcingWindowVars ==
    Range(WindowNames(GetVarsNames(config.forcing), config.forcing.window.val))

\* C13: for category forcing the returned statistics hold the window-expanded
\* forcing variables that are not in non_normalized_vars, and no exempt one.
C13_ForcingStats ==
    (/\ ret.op = "get_normalization_stats"
     /\ ret.category = "forcing"
     /\ config.normalization = List(<<[path |-> "stats.zarr", stats_vars |-> <<>>]>>)
     /\ config.forcing.window # Absent)
    =>  LET exempt == IF config.non_normalized_vars = None THEN {}
                      ELSE Range(config.non_normalized_vars.val)
        IN  /\ ret.out.exc = "none"
            /\ ret.out.value.forcing_variable = ForcingWindowVars \ exempt

\* what the code returns when the accessors of the forcing branch exist: the
\* statistics of every window-expanded forcing variable, the exempt ones included
C13_ReturnsAll ==
    (/\ ret.op = "get_normalization_stats"
     /\ ret.category = "forcing"
     /\ ret.out.exc = "none"
     /\ ret.out.value # None)
    =>  /\ config.accessors
        /\ ret.out.value.forcing_variable = ForcingWindowVars

\* the statistics returned hold an exempt forcing variable
C13_ExemptReturned ==
    /\ ret.op = "get_normalization_stats"
    /\ ret.category = "forcing"
    /\ ret.out.exc = "none"
    /\ ret.out.value # None
    /\ config.non_normalized_vars = List(<< <<"u10", "_", 0>> >>)
    /\ <<"u10", "_", 0>> \in ret.out.value.forcing_variable

(***************************************************************************)
(* TrainingSample.  A tensor is its shape and, per time step, the source   *)
(* entries the step holds (src).                                           *)
(***************************************************************************)
MaxSteps == 3       \* most time steps of a tensor handed to TrainingSample
MaxGridPts == 2     \* most grid points of such a tensor
MaxFeat == 2        \* most features of such a tensor

Tensor(shape, src) == [shape |-> shape, src |-> src]

PostInitGridUnchecked(sample) ==
    LET init == sample.init_states.shape
        target == sample.target_states.shape
        N_pred_steps == target[1]
    IN  IF init[1] # 2 THEN Raise("AssertionError")
        ELSE IF ~(target[2] = target[2]) THEN Raise("Exception")
        ELSE IF target[3] # init[3] THEN Raise("AssertionError")
        ELSE IF ~(/\ target[1] = sample.forcing.shape[1]
                  /\ sample.forcing.shape[1] = Len(sample.batch_times)
                  /\ Len(sample.batch_times) = N_pred_steps)
        THEN Raise("Exception")
        ELSE Ok(sample)
\* TrainingSample.__post_init__: the sample, or what the validation raised
PostInit(sample) ==
    LET init == sample.init_states.shape
        target == sample.target_states.shape
        N_grid == init[2]
        d_features == init[3]
        N_pred_steps == target[1]
    IN  IF init[1] # 2 THEN Raise("AssertionError")
        ELSE IF ~(target[2] = target[2] /\ target[2] = N_grid)
        THEN Raise("Exception")
        ELSE IF target[3] # d_features THEN Raise("AssertionError")
        ELSE IF ~(/\ target[1] = sample.forcing.shape[1]
                  /\ sample.forcing.shape[1] = Len(sample.batch_times)
                  /\ Len(sample.batch_times) = N_pred_steps)
        THEN Raise("Exception")
        ELSE Ok(sample)

\* TrainingSample(init_states, target_states, forcing, batch_times)
TrainingSample(init_states, target_states, forcing, batch_times) ==
    PostInit([init_states |-> init_states, target_states |-> target_states,
              forcing |-> forcing, batch_times |-> batch_times])

Shapes == (0..MaxSteps) \X (1..MaxGridPts) \X (1..MaxFeat)

InitSample ==
    /\ config = Idle
    /\ zarr = Idle
    /\ dataset = Idle
    /\ ds = Idle
    /\ module = Idle /\ cache = Idle /\ workers = Idle /\ seen = Idle
    /\ ret = Idle

Construct ==
    /\ ret.op = "none"
    /\ \E init \in Shapes, target \in Shapes, forcing \in Shapes,
          n_times \in 0..MaxSteps :
          ret' = [op |-> "TrainingSample",
                  arg |-> [init |-> init, target |-> target, forcing |-> forcing,
                           n_times |-> n_times],
                  out |-> TrainingSample(Tensor(init, <<>>), Tensor(target, <<>>),
                              Tensor(forcing, <<>>), [i \in 1..n_times |-> i])]
    /\ UNCHANGED <<config, zarr, dataset, ds, module, cache, workers, seen>>

NextSample == Construct

SpecSample == InitSample /\ [][NextSample]_vars

\* C3: constructing a TrainingSample succeeds exactly when init_states has 2
\* steps, init_states and target_states agree in grid points and in features,
\* and target_states, forcing and batch_times agree in steps; else it raises.
C3_Validation ==
    ret.op = "TrainingSample" =>
        (ret.out.exc = "none" <=>
            /\ ret.arg.init[1] = 2
            /\ ret.arg.init[2] = ret.arg.target[2]
            /\ ret.arg.init[3] = ret.arg.target[3]
            /\ ret.arg.target[1] = ret.arg.forcing[1]
            /\ ret.arg.target[1] = ret.arg.n_times)

\* a sample whose only fault is the grid-point count of target_states was refused
C3_Witness ==
    /\ ret.op = "TrainingSample"
    /\ ret.arg.init = <<2, 1, 2>>
    /\ ret.arg.target = <<3, 2, 2>>
    /\ ret.arg.forcing[1] = 3
    /\ ret.arg.n_times = 3
    /\ ret.out.exc = "Exception"

\* a sample that meets all four conditions was built
C3_WitnessBuilt ==
    /\ ret.op = "TrainingSample"
    /\ ret.arg.target[1] = 3
    /\ ret.arg.forcing[2] # ret.arg.target[2]
    /\ ret.out.exc = "none"

(***************************************************************************)
(* WeatherDataset.  Its arrays come from the datastore: either arrays with *)
(* the dimensions __getitem__ names (time or analysis_time and             *)
(* elapsed_forecast_time, grid_index, state_feature / forcing_feature,     *)
(* with or without ensemble_member), or what MultiZarrDatastore's          *)
(* get_dataarray returns.                                                  *)
(***************************************************************************)
MaxAr == 2              \* largest ar_steps
MaxForcingWindow == 3   \* largest forcing_window_size
MaxMembers == 2         \* most ensemble members
GridPts == 2            \* grid points of the dataset's arrays
StateFeatures == 2      \* state variables of the dataset's arrays

\* an array laid out along time
PlainArray(feature_dim, n_times, n_members, n_feat) ==
    [dims |-> {"time", "grid_index", feature_dim}
              \cup (IF n_members > 0 THEN {"ensemble_member"} ELSE {}),
     time |-> RawAxis(Labels(0, 1, n_times)), analysis |-> <<>>, elapsed |-> <<>>,
     members |-> n_members, picked |-> <<>>, ngrid |-> GridPts, nfeat |-> n_feat]

\* an array laid out along analysis_time and elapsed_forecast_time
ForecastArray(feature_dim, n_analysis, n_elapsed, n_members, n_feat) ==
    [dims |-> {"analysis_time", "elapsed_forecast_time", "grid_index", feature_dim}
              \cup (IF n_members > 0 THEN {"ensemble_member"} ELSE {}),
     time |-> <<>>, analysis |-> Labels(0, n_elapsed, n_analysis),
     elapsed |-> Labels(0, 1, n_elapsed),
     members |-> n_members, picked |-> <<>>, ngrid |-> GridPts, nfeat |-> n_feat]

\* the array get_dataarray returned, as the dataset holds it
FromDatastore(arr) ==
    [dims |-> arr.dims, time |-> arr.time, analysis |-> <<>>, elapsed |-> <<>>,
     members |-> 0, picked |-> <<>>, ngrid |-> Len(arr.grid),
     nfeat |-> arr.nvars * arr.nwindow]

\* xr.DataArray(): no dimensions, no data
EmptyDataArray ==
    [dims |-> {}, time |-> <<>>, analysis |-> <<>>, elapsed |-> <<>>,
     members |-> 0, picked |-> <<>>, ngrid |-> 0, nfeat |-> 0]

LenShort(d) ==
    IF d.datastore.is_forecast
    THEN IF d.datastore.is_ensemble
         THEN Len(d.da_state.analysis) * d.da_state.members
         ELSE Len(d.da_state.analysis) - 1
    ELSE Len(d.da_state.time) - d.ar_steps - 2
\* WeatherDataset.__len__
LenOf(d) ==
    IF d.datastore.is_forecast
    THEN IF d.datastore.is_ensemble
         THEN Len(d.da_state.analysis) * d.da_state.members
         ELSE Len(d.da_state.analysis)
    ELSE Len(d.da_state.time) - d.ar_steps

\* WeatherDataset._sample_time(da, idx, n_steps, n_timesteps_offset)
SampleTime(d, da, idx, n_steps, n_timesteps_offset) ==
    IF d.datastore.is_forecast
    THEN IF ~({"analysis_time", "elapsed_forecast_time"} \subseteq da.dims)
         THEN Raise("ValueError")       \* isel of a missing dimension
         ELSE IF idx >= Len(da.analysis) THEN Raise("IndexError")
         ELSE LET steps == PySlice(da.elapsed, n_timesteps_offset,
                                   n_steps + n_timesteps_offset)
              IN  Ok([da EXCEPT
                        !.dims = (@ \ {"analysis_time", "elapsed_forecast_time"})
                                 \cup {"time"},
                        !.time = [i \in 1..Len(steps) |->
                                    [t |-> da.analysis[idx + 1] + steps[i],
                                     src |-> <<da.analysis[idx + 1] + steps[i]>>]],
                        !.analysis = <<>>, !.elapsed = <<>>])
    ELSE IF "time" \notin da.dims THEN Raise("ValueError")
         ELSE Ok([da EXCEPT !.time = PySlice(@, idx + n_timesteps_offset,
                                             idx + n_steps + n_timesteps_offset)])

\* the loop over the window positions and xr.concat(das_forcing,
\* dim="window_sample"): the slices must be equally long
ForcingWindowed(d, da_forcing, idx) ==
    LET W == d.forcing_window_size
        das == [n \in 1..W |-> SampleTime(d, da_forcing, idx, d.ar_steps, 2 + (n - 1))]
    IN  IF W = 0 THEN Raise("ValueError")       \* nothing to concatenate
        ELSE IF \E n \in 1..W : das[n].exc # "none"
        THEN das[CHOOSE n \in 1..W :
                    das[n].exc # "none" /\ \A m \in 1..(n - 1) : das[m].exc = "none"]
        ELSE IF \E n \in 1..W : Len(das[n].value.time) # Len(das[1].value.time)
        THEN Raise("ValueError")
        ELSE Ok([das[1].value EXCEPT
                    !.dims = @ \cup {"window_sample"},
                    !.time = [i \in 1..Len(das[1].value.time) |->
                                [t |-> das[1].value.time[i].t,
                                 src |-> Flatten([n \in 1..W |->
                                            das[n].value.time[i].src])]]])

\* the rest of __getitem__ once the time slices are taken: transpose, split
\* into init and target, batch_times, the stacking of forcing_feature and
\* window_sample, and the TrainingSample
BuildSample(d, da_state, da_forcing_windowed) ==
    IF da_state.dims # {"time", "grid_index", "state_feature"}
    THEN Raise("ValueError")            \* transpose
    ELSE IF da_forcing_windowed.dims #
                {"time", "grid_index", "forcing_feature", "window_sample"}
    THEN Raise("ValueError")            \* transpose
    ELSE
    LET da_init_states == PySlice(da_state.time, 0, 2)
        da_target_states == PySlice(da_state.time, 2, Len(da_state.time))
        batch_times == [i \in 1..Len(da_forcing_windowed.time) |->
                            da_forcing_windowed.time[i].t]
        srcs(axis) == [i \in 1..Len(axis) |-> axis[i].src]
        member(axis) == [i \in 1..Len(axis) |->
                            [t |-> axis[i].t, src |-> axis[i].src \o da_state.picked]]
    IN  TrainingSample(
            Tensor(<<Len(da_init_states), da_state.ngrid, da_state.nfeat>>,
                   srcs(member(da_init_states))),
            Tensor(<<Len(da_target_states), da_state.ngrid, da_state.nfeat>>,
                   srcs(member(da_target_states))),
            Tensor(<<Len(da_forcing_windowed.time), da_forcing_windowed.ngrid,
                     da_forcing_windowed.nfeat * d.forcing_window_size>>,
                   srcs(da_forcing_windowed.time)),
            batch_times)

\* __getitem__ from the time sampling on
GetItemSampled(d, idx, i_ensemble) ==
    LET da_state == IF d.datastore.is_ensemble
                    THEN [d.da_state EXCEPT !.dims = @ \ {"ensemble_member"},
                                            !.members = 0,
                                            !.picked = <<i_ensemble>>]
                    ELSE d.da_state
        da_forcing == IF d.da_forcing # None THEN d.da_forcing ELSE EmptyDataArray
    IN  Then(SampleTime(d, da_state, idx, 2 + d.ar_steps, 0), LAMBDA sampled :
        Then(ForcingWindowed(d, da_forcing, idx), LAMBDA windowed :
        BuildSample(d, sampled, windowed)))

GetItemUnguarded(d, idx, i_ensemble) == GetItemSampled(d, idx, i_ensemble)
\* WeatherDataset.__getitem__(idx), i_ensemble being the member drawn
GetItem(d, idx, i_ensemble) ==
    IF d.da_forcing # None /\ "ensemble_member" \in d.da_forcing.dims
    THEN Raise("NotImplementedError")
    ELSE GetItemSampled(d, idx, i_ensemble)

\* the archives of a MultiZarrDatastore whose splits start with the archive
Archives ==
    {[state_time |-> RawAxis(Labels(0, 1, DiskSteps)), splits |-> [train |-> sp],
      dims |-> {"time", "y", "x"}, time |-> RawAxis(Labels(0, 1, DiskSteps)),
      ny |-> 1, nx |-> GridPts] : sp \in {w \in WindowSplits : w.start = 0}}

\* WeatherDataset.__init__ on a datastore that hands out arrays with the
\* dimensions __getitem__ names
InitInterface ==
    /\ config = Idle
    /\ zarr = Idle
    /\ \E is_forecast \in BOOLEAN, members \in 0..MaxMembers, n \in 0..MaxT,
          ar_steps \in 1..MaxAr, window \in 1..MaxForcingWindow,
          forcing \in {"none", "plain", "ensemble"} :
          LET array(dim, m, nfeat) ==
                  IF is_forecast THEN ForecastArray(dim, n, DiskSteps, m, nfeat)
                  ELSE PlainArray(dim, n, m, nfeat)
          IN  ds = [datastore |-> [source |-> "interface",
                                   is_forecast |-> is_forecast,
                                   is_ensemble |-> members > 0],
                    ar_steps |-> ar_steps, forcing_window_size |-> window,
                    da_state |-> array("state_feature", members, StateFeatures),
                    da_forcing |->
                        CASE forcing = "none" -> None
                          [] forcing = "plain" -> array("forcing_feature", 0, 1)
                          [] forcing = "ensemble" ->
                                array("forcing_feature", MaxMembers, 1)]

\* WeatherDataset.__init__ on a MultiZarrDatastore
InitMultiZarr ==
    /\ config \in ForcingConfigs
    /\ zarr \in Archives
    /\ \E ar_steps \in 1..MaxAr, window \in 1..MaxForcingWindow :
          LET state == GetDataarray(StateConfig, zarr, "state", "train", TRUE)
              forcing == GetDataarray(config, zarr, "forcing", "train", TRUE)
          IN  /\ state.exc = "none" /\ forcing.exc = "none"
              /\ ds = [datastore |-> [source |-> "multizarr", is_forecast |-> FALSE,
                                      is_ensemble |-> FALSE],
                       ar_steps |-> ar_steps, forcing_window_size |-> window,
                       da_state |-> FromDatastore(state.value),
                       da_forcing |-> FromDatastore(forcing.value)]

Init ==
    /\ InitInterface \/ InitMultiZarr
    /\ dataset = Idle
    /\ module = Idle /\ cache = Idle /\ workers = Idle /\ seen = Idle
    /\ ret = Idle

CallLen ==
    /\ ret' = [op |-> "__len__", idx |-> 0, out |-> Ok(LenOf(ds))]
    /\ UNCHANGED <<config, zarr, dataset, ds, module, cache, workers, seen>>

CallGetItem ==
    /\ \E idx \in 0..MaxT,
          i_ensemble \in IF ds.datastore.is_ensemble
                         THEN 0..(ds.da_state.members - 1) ELSE {0} :
          ret' = [op |-> "__getitem__", idx |-> idx,
                  out |-> GetItem(ds, idx, i_ensemble)]
    /\ UNCHANGED <<config, zarr, dataset, ds, module, cache, workers, seen>>

Next == CallLen \/ CallGetItem

Spec == Init /\ [][Next]_vars

\* a plain time series with forcing, in the dimensions __getitem__ names
PlainTimeSeries ==
    /\ ds.datastore.source = "interface"
    /\ ~ds.datastore.is_forecast
    /\ ~ds.datastore.is_ensemble
    /\ ds.da_forcing # None
    /\ "ensemble_member" \notin ds.da_forcing.dims

\* C1: for a plain time series, every idx with 0 <= idx < length() makes
\* sample(idx) return a TrainingSample whose init_states has 2 time steps and
\* whose target_states, forcing and batch_times have ar_steps time steps each.
C1_SampleSteps ==
    (ret.op = "__getitem__" /\ PlainTimeSeries /\ ret.idx < LenOf(ds)) =>
        /\ ret.out.exc = "none"
        /\ ret.out.value.init_states.shape[1] = 2
        /\ ret.out.value.target_states.shape[1] = ds.ar_steps
        /\ ret.out.value.forcing.shape[1] = ds.ar_steps
        /\ Len(ret.out.value.batch_times) = ds.ar_steps

\* what the code keeps of C1: the indices whose slices all lie inside the
\* time axis, idx <= T - ar_steps - forcing_window_size - 1, give such a sample
C1_SampleStepsInside ==
    (/\ ret.op = "__getitem__" /\ PlainTimeSeries
     /\ ret.idx + ds.ar_steps + ds.forcing_window_size + 1 <= Len(ds.da_state.time))
    =>  /\ ret.out.exc = "none"
        /\ ret.out.value.init_states.shape[1] = 2
        /\ ret.out.value.target_states.shape[1] = ds.ar_steps
        /\ ret.out.value.forcing.shape[1] = ds.ar_steps
        /\ Len(ret.out.value.batch_times) = ds.ar_steps

\* the last index length() allows returned a sample one target step short
C1_ShortSample ==
    /\ ret.op = "__getitem__" /\ PlainTimeSeries
    /\ ret.idx = LenOf(ds) - 1
    /\ ds.ar_steps = 2
    /\ ret.out.exc = "none"
    /\ ret.out.value.target_states.shape[1] = 1

\* C2: length() is T - ar_steps for a plain time series of T steps, and the
\* number of analysis times for a forecast layout without ensemble members.
C2_Length ==
    ret.op = "__len__" =>
        /\ ~ds.datastore.is_forecast =>
               ret.out.value = Len(ds.da_state.time) - ds.ar_steps
        /\ (ds.datastore.is_forecast /\ ~ds.datastore.is_ensemble) =>
               ret.out.value = Len(ds.da_state.analysis)

\* the length of a plain series of 5 steps with ar_steps = 2 was taken
C2_Witness ==
    /\ ret.op = "__len__"
    /\ ~ds.datastore.is_forecast
    /\ Len(ds.da_state.time) = 5
    /\ ds.ar_steps = 2
    /\ ret.out.value = 3

\* the length of a forecast layout of 4 analysis times was taken
C2_WitnessForecast ==
    /\ ret.op = "__len__"
    /\ ds.datastore.is_forecast /\ ~ds.datastore.is_ensemble
    /\ Len(ds.da_state.analysis) = 4
    /\ ret.out.value = 4

\* the forcing variables of the MultiZarrDatastore config
ForcingVars == GetNumDataVars(config)

\* C4: a dataset on a datastore with F forcing variables and forcing window W
\* returns a forcing tensor of shape (ar_steps, N_grid, F * W), with
\* init_states (2, N_grid, d_state) and target_states (ar_steps, N_grid, d_state).
\* Stated for W = 3, the window of the claim's example, and for the indices
\* whose slices lie inside the time axis.
C4_ForcingFeatures ==
    (/\ ret.op = "__getitem__"
     /\ ds.datastore.source = "multizarr"
     /\ ds.forcing_window_size = 3
     /\ config.window = [tag |-> "int", val |-> ds.forcing_window_size]
     /\ ret.idx + ds.ar_steps + ds.forcing_window_size + 1 <= Len(ds.da_state.time))
    =>  /\ ret.out.exc = "none"
        /\ ret.out.value.forcing.shape =
               <<ds.ar_steps, ds.da_state.ngrid, ForcingVars * ds.forcing_window_size>>
        /\ ret.out.value.init_states.shape = <<2, ds.da_state.ngrid, 2>>
        /\ ret.out.value.target_states.shape = <<ds.ar_steps, ds.da_state.ngrid, 2>>

\* the feature count of the forcing array a windowing config hands the dataset
C4_DatastoreFeatures ==
    (ds.datastore.source = "multizarr" /\ config.window # Absent) =>
        ds.da_forcing.nfeat = ForcingVars * config.window.val

\* C10: when the forcing array has an ensemble_member dimension, sample(idx)
\* raises NotImplementedError for every idx and every state layout.
C10_EnsembleForcing ==
    (/\ ret.op = "__getitem__"
     /\ ds.da_forcing # None
     /\ "ensemble_member" \in ds.da_forcing.dims)
    => ret.out.exc = "NotImplementedError"

\* sample(idx) was refused on an ensemble forecast state with ensemble forcing
C10_Witness ==
    /\ ret.op = "__getitem__"
    /\ ds.da_forcing # None
    /\ "ensemble_member" \in ds.da_forcing.dims
    /\ ds.datastore.is_forecast /\ ds.datastore.is_ensemble
    /\ ret.idx = 1
    /\ ret.out.exc = "NotImplementedError"

(***************************************************************************)
(* WeatherDataModule.  seen holds the stages setup was called with.        *)
(***************************************************************************)
MaxBatch == 2       \* largest batch_size
MaxWorkers == 2     \* largest num_workers

\* WeatherDataset(...): datastore is the one parameter without a default
WeatherDatasetInit(args) ==
    IF args.datastore = Absent THEN Raise("TypeError")
    ELSE Ok([datastore |-> args.datastore, split |-> args.split,
             ar_steps |-> args.ar_steps, standardize |-> args.standardize,
             batch_size |-> args.batch_size])

\* self.<field> = WeatherDataset(split=..., ar_steps=..., standardize=...,
\* batch_size=...): the field is assigned unless the constructor raised
SetupDataset(dm, field, split, ar_steps) ==
    LET built == WeatherDatasetInit([datastore |-> Absent, split |-> split,
                                     ar_steps |-> ar_steps,
                                     standardize |-> dm.standardize,
                                     batch_size |-> dm.batch_size])
    IN  IF built.exc = "none"
        THEN [module |-> [dm EXCEPT ![field] = built.value], out |-> Ok(None)]
        ELSE [module |-> dm, out |-> built]

\* WeatherDataModule.setup(stage); "None" is stage=None
Setup(dm, stage) ==
    LET fit == stage = "fit" \/ stage = "None"
        test == stage = "test" \/ stage = "None"
        train == IF fit
                 THEN SetupDataset(dm, "train_dataset", "train", dm.ar_steps_train)
                 ELSE [module |-> dm, out |-> Ok(None)]
        val == IF fit /\ train.out.exc = "none"
               THEN SetupDataset(train.module, "val_dataset", "val", dm.ar_steps_eval)
               ELSE train
    IN  IF test /\ val.out.exc = "none"
        THEN SetupDataset(val.module, "test_dataset", "test", dm.ar_steps_eval)
        ELSE val

\* the stages a trainer calls setup with, and no stage
Stages == {"fit", "validate", "test", "predict", "None"}

\* WeatherDataModule.__init__
InitModule ==
    /\ config = Idle
    /\ zarr = Idle
    /\ dataset = Idle
    /\ ds = Idle
    /\ \E ar_steps_train \in 1..MaxAr, ar_steps_eval \in 1..MaxAr,
          standardize \in BOOLEAN, batch_size \in 1..MaxBatch,
          num_workers \in 0..MaxWorkers :
          module = [ar_steps_train |-> ar_steps_train,
                    ar_steps_eval |-> ar_steps_eval, standardize |-> standardize,
                    batch_size |-> batch_size, num_workers |-> num_workers,
                    train_dataset |-> None, val_dataset |-> None,
                    test_dataset |-> None]
    /\ cache = Idle
    /\ workers = Idle
    /\ seen = {}
    /\ ret = Idle

CallSetup ==
    /\ \E stage \in Stages :
          LET r == Setup(module, stage)
          IN  /\ module' = r.module
              /\ seen' = seen \cup {stage}
              /\ ret' = [op |-> "setup", stage |-> stage, before |-> module,
                         out |-> r.out]
    /\ UNCHANGED <<config, zarr, dataset, ds, cache, workers>>

NextModule == CallSetup

SpecModule == InitModule /\ [][NextModule]_vars

\* C14: before any setup call the three datasets are None; setup('fit')
\* constructs the train and validation datasets and leaves the test dataset as
\* it was; setup('test') constructs the test dataset only; setup(None) all
\* three; a dataset is not None exactly when a stage covering it was requested.
C14_LazySetup ==
    /\ ret.op = "none" =>
           /\ module.train_dataset = None
           /\ module.val_dataset = None
           /\ module.test_dataset = None
    /\ (ret.op = "setup" /\ ret.stage = "fit") =>
           /\ ret.out.exc = "none"
           /\ module.test_dataset = ret.before.test_dataset
    /\ (ret.op = "setup" /\ ret.stage = "test") =>
           /\ ret.out.exc = "none"
           /\ module.train_dataset = ret.before.train_dataset
           /\ module.val_dataset = ret.before.val_dataset
    /\ module.train_dataset # None <=> seen \cap {"fit", "None"} # {}
    /\ module.val_dataset # None <=> seen \cap {"fit", "None"} # {}
    /\ module.test_dataset # None <=> seen \cap {"test", "None"} # {}

\* what the code does: setup raises TypeError for the stages that construct a
\* dataset, and the three datasets stay None whatever was requested
C14_SetupRaises ==
    /\ module.train_dataset = None
    /\ module.val_dataset = None
    /\ module.test_dataset = None
    /\ ret.op = "setup" =>
           (ret.out.exc = IF ret.stage \in {"fit", "test", "None"}
                          THEN "TypeError" ELSE "none")

(***************************************************************************)
(* The memoized quantities of MultiZarrDatastore (functools.lru_cache and  *)
(* functools.cached_property) under concurrent callers.  A call looks its  *)
(* key up; on a miss it runs the method and then stores the result, and    *)
(* other callers run between the look-up and the store.  cached_property   *)
(* holds a lock around both up to Python 3.11 and none from 3.12 on.       *)
(* seen holds, per key, the values callers were given.                     *)
(***************************************************************************)
NumWorkers == 2         \* concurrent callers
MaxComputations == 3    \* runs of one method for one key

\* the cache keys: lru_cache keys a positional and a keyword argument apart
MemoKeys ==
    {[method |-> "get_vars_names", category |-> "state", style |-> "positional"],
     [method |-> "get_vars_names", category |-> "state", style |-> "keyword"],
     [method |-> "get_num_data_vars", category |-> "forcing", style |-> "positional"],
     [method |-> "step_length", category |-> "state", style |-> "property"]}

\* the body of the memoized method
MemoValue(cfg, disk, key) ==
    CASE key.method = "get_vars_names" -> GetVarsNames(cfg[key.category])
      [] key.method = "get_num_data_vars" -> GetNumDataVars(cfg[key.category])
      [] key.method = "step_length" -> disk.state_time[2].t - disk.state_time[1].t

CacheHitNever(c, key) == FALSE
\* the look-up of the wrapper
CacheHit(c, key) == c.entries[key].has

\* the store of the wrapper: the result is kept unless the key was stored meanwhile
CacheStore(c, key, value) ==
    [c EXCEPT !.entries[key] = IF @.has THEN @ ELSE [has |-> TRUE, value |-> value],
              !.computed[key] = @ + 1]

\* whether look-up, method and store of the key run under one lock
Locked(c, key) == key.style = "property" /\ c.property_lock

InitMemo ==
    /\ \E forcing \in {f \in ForcingConfigs : f.window = Absent} :
          config = [state |-> StateConfig, forcing |-> forcing]
    /\ \E step \in {1, CoarseStep} : zarr = [state_time |-> RawAxis(Labels(0, step, 2))]
    /\ dataset = Idle
    /\ ds = Idle
    /\ module = Idle
    /\ \E property_lock \in BOOLEAN :
          cache = [entries |-> [k \in MemoKeys |-> [has |-> FALSE, value |-> <<>>]],
                   computed |-> [k \in MemoKeys |-> 0],
                   property_lock |-> property_lock]
    /\ workers = [w \in 1..NumWorkers |-> [pc |-> "idle"]]
    /\ seen = [k \in MemoKeys |-> {}]
    /\ ret = Idle

\* a caller asks for a quantity: a hit returns the stored value; a miss under
\* the lock runs and stores at once; any other miss goes on to run the method
CallMemoized(w, key) ==
    /\ workers[w].pc = "idle"
    /\ cache.computed[key] < MaxComputations
    /\ IF CacheHit(cache, key)
       THEN /\ ret' = [op |-> "call", worker |-> w, key |-> key, hit |-> TRUE,
                       out |-> Ok(cache.entries[key].value)]
            /\ seen' = [seen EXCEPT ![key] = @ \cup {cache.entries[key].value}]
            /\ UNCHANGED <<cache, workers>>
       ELSE IF Locked(cache, key)
       THEN LET value == MemoValue(config, zarr, key)
            IN  /\ cache' = CacheStore(cache, key, value)
                /\ ret' = [op |-> "call", worker |-> w, key |-> key, hit |-> FALSE,
                           out |-> Ok(value)]
                /\ seen' = [seen EXCEPT ![key] = @ \cup {value}]
                /\ UNCHANGED workers
       ELSE /\ workers' = [workers EXCEPT ![w] = [pc |-> "computing", key |-> key]]
            /\ ret' = [op |-> "miss", worker |-> w, key |-> key, hit |-> FALSE,
                       out |-> Ok(<<>>)]
            /\ UNCHANGED <<cache, seen>>
    /\ UNCHANGED <<config, zarr, dataset, ds, module>>

\* the method returns: its result is stored and handed to the caller
FinishMemoized(w) ==
    /\ workers[w].pc = "computing"
    /\ LET key == workers[w].key
           value == MemoValue(config, zarr, key)
       IN  /\ cache' = CacheStore(cache, key, value)
           /\ ret' = [op |-> "call", worker |-> w, key |-> key, hit |-> FALSE,
                      out |-> Ok(value)]
           /\ seen' = [seen EXCEPT ![key] = @ \cup {value}]
    /\ workers' = [workers EXCEPT ![w] = [pc |-> "idle"]]
    /\ UNCHANGED <<config, zarr, dataset, ds, module>>

NextMemo ==
    \/ \E w \in 1..NumWorkers, key \in MemoKeys : CallMemoized(w, key)
    \/ \E w \in 1..NumWorkers : FinishMemoized(w)

SpecMemo == InitMemo /\ [][NextMemo]_vars

\* the workers running the method for the key
Computing(key) ==
    {w \in 1..NumWorkers : workers[w].pc = "computing" /\ workers[w].key = key}

\* C15: each memoized quantity is computed at most once per datastore and
\* argument tuple, also when several workers ask for it concurrently for the
\* first time, and every caller observes the same value.
C15_ComputedOnce ==
    /\ \A key \in MemoKeys : cache.computed[key] <= 1
    /\ cache.computed[[method |-> "get_vars_names", category |-> "state",
                       style |-> "positional"]]
       + cache.computed[[method |-> "get_vars_names", category |-> "state",
                         style |-> "keyword"]] <= 1
    /\ \A key \in MemoKeys : Cardinality(seen[key]) <= 1

\* C15 as the code has it: once a key is stored no caller starts a run of its
\* method, so that the method runs no more once the runs under way at the
\* store are over; a stored value is never replaced; and every caller of a key
\* observes the same value.
C15_ComputedOncePerKey ==
    /\ [](\A key \in MemoKeys : Cardinality(seen[key]) <= 1)
    /\ [][\A key \in MemoKeys :
            cache.entries[key].has =>
                /\ cache'.entries[key] = cache.entries[key]
                /\ Computing(key)' \subseteq Computing(key)
                /\ Computing(key) = {} => cache'.computed[key] = cache.computed[key]]_vars

\* two first calls overlapped and both ran the method; a later call was served
\* from the cache
C15_Witness ==
    /\ ret.op = "call"
    /\ ret.hit
    /\ ret.key.method = "get_num_data_vars"
    /\ cache.computed[ret.key] = 2
    /\ seen[ret.key] = {ret.out.value}

(***************************************************************************)
(* Sample fetches by concurrent workers on one WeatherDataset.  A fetch    *)
(* takes the state slice, other fetches run, and then it takes the forcing *)
(* slices and builds the sample.  seen holds, per index, the first sample  *)
(* a fetch returned.                                                       *)
(***************************************************************************)
FetchWorkers == {"w1", "w2"}
FetchIdx == {0, 1}

\* __getitem__ up to the state slice: the member drawn, the test of the forcing
\* array and _sample_time on the state
FetchState(d, idx, i_ensemble) ==
    LET da_state == IF d.datastore.is_ensemble
                    THEN [d.da_state EXCEPT !.dims = @ \ {"ensemble_member"},
                                            !.members = 0,
                                            !.picked = <<i_ensemble>>]
                    ELSE d.da_state
    IN  IF d.da_forcing # None /\ "ensemble_member" \in d.da_forcing.dims
        THEN Raise("NotImplementedError")
        ELSE SampleTime(d, da_state, idx, 2 + d.ar_steps, 0)

\* __getitem__ from the forcing slices on
FetchRest(d, sampled, idx) ==
    LET da_forcing == IF d.da_forcing # None THEN d.da_forcing ELSE EmptyDataArray
    IN  Then(ForcingWindowed(d, da_forcing, idx), LAMBDA windowed :
             BuildSample(d, sampled, windowed))

GetItemEffectKeepsSlice(d, idx) ==
    [d EXCEPT !.da_state.time = PySlice(@, idx, Len(@))]
\* the dataset after __getitem__(idx): no attribute of self is assigned, and
\* isel, drop_vars, concat, transpose and stack return new arrays
GetItemEffect(d, idx) == d

\* WeatherDataset.__init__ with its statistics, on a datastore that hands out
\* arrays with the dimensions __getitem__ names
InitFetch ==
    /\ config = Idle
    /\ zarr = Idle
    /\ dataset = Idle
    /\ \E is_forecast \in BOOLEAN, members \in {0, MaxMembers},
          ar_steps \in 1..MaxAr, window \in {1, MaxForcingWindow},
          forcing \in {"none", "plain", "ensemble"}, standardize \in BOOLEAN :
          LET array(dim, m, nfeat) ==
                  IF is_forecast THEN ForecastArray(dim, MaxT, DiskSteps, m, nfeat)
                  ELSE PlainArray(dim, MaxT, m, nfeat)
          IN  ds = [datastore |-> [source |-> "interface",
                                   is_forecast |-> is_forecast,
                                   is_ensemble |-> members > 0],
                    ar_steps |-> ar_steps, forcing_window_size |-> window,
                    da_state |-> array("state_feature", members, StateFeatures),
                    da_forcing |->
                        CASE forcing = "none" -> None
                          [] forcing = "plain" -> array("forcing_feature", 0, 1)
                          [] forcing = "ensemble" ->
                                array("forcing_feature", MaxMembers, 1),
                    standardize |-> standardize,
                    da_state_mean |-> "state_mean", da_state_std |-> "state_std",
                    da_forcing_mean |-> "forcing_mean",
                    da_forcing_std |-> "forcing_std"]
    /\ module = Idle
    /\ cache = Idle
    /\ workers = [w \in FetchWorkers |-> [pc |-> "idle"]]
    /\ seen = [idx \in FetchIdx |-> [has |-> FALSE, out |-> <<>>]]
    /\ ret = Idle

\* what a finished fetch leaves: the sample returned and the dataset
Fetched(w, idx, i_ensemble, out) ==
    /\ ret' = [op |-> "__getitem__", worker |-> w, idx |-> idx,
               i_ensemble |-> i_ensemble, out |-> out]
    /\ seen' = [seen EXCEPT ![idx] = IF @.has THEN @ ELSE [has |-> TRUE, out |-> out]]
    /\ ds' = GetItemEffect(ds, idx)
    /\ workers' = [workers EXCEPT ![w] = [pc |-> "idle"]]

\* a worker enters __getitem__(idx) and takes the state slice
BeginFetch(w, idx) ==
    /\ workers[w].pc = "idle"
    /\ \E i_ensemble \in IF ds.datastore.is_ensemble
                         THEN 0..(ds.da_state.members - 1) ELSE {0} :
          LET sampled == FetchState(ds, idx, i_ensemble)
          IN  IF sampled.exc # "none"
              THEN Fetched(w, idx, i_ensemble, sampled)
              ELSE /\ workers' = [workers EXCEPT ![w] =
                                    [pc |-> "sampled", idx |-> idx,
                                     i_ensemble |-> i_ensemble,
                                     da_state |-> sampled.value]]
                   /\ UNCHANGED <<ds, seen, ret>>
    /\ UNCHANGED <<config, zarr, dataset, module, cache>>

\* the worker takes the forcing slices, builds the sample and returns it
FinishFetch(w) ==
    /\ workers[w].pc = "sampled"
    /\ Fetched(w, workers[w].idx, workers[w].i_ensemble,
               FetchRest(ds, workers[w].da_state, workers[w].idx))
    /\ UNCHANGED <<config, zarr, dataset, module, cache>>

NextFetch ==
    \/ \E w \in FetchWorkers, idx \in FetchIdx : BeginFetch(w, idx)
    \/ \E w \in FetchWorkers : FinishFetch(w)

SpecFetch == InitFetch /\ [][NextFetch]_vars

\* C16: sample(idx) leaves the dataset's state array, forcing array and
\* normalization statistics as they were, and for a source without ensemble
\* members the sample returned for idx is the one any earlier fetch of idx
\* returned and the one a fetch running alone returns, whatever fetches ran
\* before it or between its steps.
C16_Stateless ==
    /\ [][ds' = ds]_vars
    /\ []((ret.op = "__getitem__" /\ ~ds.datastore.is_ensemble) =>
            /\ ret.out = seen[ret.idx].out
            /\ ret.out = GetItem(ds, ret.idx, 0))

\* a fetch of index 0 returned its sample after a fetch of index 1 by the other
\* worker had run between its two steps and index 0 had been fetched before
C16_Witness ==
    /\ ret.op = "__getitem__"
    /\ ret.worker = "w1"
    /\ ret.idx = 0
    /\ ret.out.exc = "none"
    /\ ~ds.datastore.is_ensemble
    /\ seen[0].has /\ seen[1].has
    /\ seen[1].out.exc = "none"
    /\ workers["w2"].pc = "sampled"
    /\ workers["w2"].idx = 0

(***************************************************************************)
(* get_dataarray for every category, with and without windowing.           *)
(***************************************************************************)
\* the blocks of the categories: variables, levels, window and dims mapping
DataarrayConfigs ==
    [surface_vars : {Absent, List(<<"u10">>)},
     atmosphere_vars : {Absent, List(<<"temperature">>)},
     levels : {Absent, List(<<850, 500>>)},
     window : {Absent} \cup {[tag |-> "int", val |-> n] : n \in 1..MaxWindow},
     dims : DimsMappings]

InitDataarray ==
    /\ config \in DataarrayConfigs
    /\ \E dims \in DiskDims, nx \in 1..MaxNx,
          sp \in {w \in WindowSplits : w.start = 0 /\ w.end >= MaxT - 2} :
          zarr = [state_time |-> RawAxis(Labels(0, 1, DiskSteps)),
                  splits |-> [train |-> sp], dims |-> dims,
                  time |-> RawAxis(Labels(0, 1, DiskSteps)), ny |-> 1, nx |-> nx]
    /\ dataset = Idle
    /\ ds = Idle
    /\ module = Idle /\ cache = Idle /\ workers = Idle /\ seen = Idle
    /\ ret = Idle

\* get_dataarray(category, "train", apply_windowing)
CallGetDataarrayOf ==
    /\ \E category \in {"state", "forcing", "static"}, apply_windowing \in BOOLEAN :
          LET out == GetDataarray(config, zarr, category, "train", apply_windowing)
          IN  /\ ret' = [op |-> "get_dataarray", category |-> category,
                         apply_windowing |-> apply_windowing, out |-> out]
              /\ dataset' = IF out.exc = "none" /\ out.value # None
                            THEN out.value ELSE dataset
    /\ UNCHANGED <<config, zarr, ds, module, cache, workers, seen>>

NextDataarray == CallGetDataarrayOf

SpecDataarray == InitDataarray /\ [][NextDataarray]_vars

\* C17: every array get_dataarray returns, for state, forcing (with or without
\* windowing) and static, has its dimensions among time, grid_index and
\* variable, and a static array has no time dimension.
C17_DimsKept ==
    (ret.op = "get_dataarray" /\ ret.out.exc = "none" /\ ret.out.value # None) =>
        /\ ret.out.value.dims \subseteq DIMS_TO_KEEP
        /\ ret.category = "static" => "time" \notin ret.out.value.dims

\* C17 as the code has it: an array returned without windowing has its
\* dimensions among time, grid_index and variable; one returned with windowing
\* (a window is configured and apply_windowing is set) has time, grid_index
\* and variable_window; a static array has no time dimension.
C17_DimsKeptOrWindowed ==
    (ret.op = "get_dataarray" /\ ret.out.exc = "none" /\ ret.out.value # None) =>
        /\ IF config.window # Absent /\ ret.apply_windowing
           THEN ret.out.value.dims = {"time", "grid_index", "variable_window"}
           ELSE /\ ret.out.value.dims \subseteq DIMS_TO_KEEP
                /\ {"grid_index", "variable"} \subseteq ret.out.value.dims
        /\ ret.category = "static" => "time" \notin ret.out.value.dims

\* a static array was returned from an archive that has a time dimension
C17_Witness ==
    /\ ret.op = "get_dataarray"
    /\ ret.category = "static"
    /\ "time" \in zarr.dims
    /\ ret.out.exc = "none"
    /\ ret.out.value # None
    /\ ret.out.value.dims = {"grid_index", "variable"}

\* a forcing array was returned with its window
C17_WitnessWindowed ==
    /\ ret.op = "get_dataarray"
    /\ ret.category = "forcing"
    /\ config.window # Absent /\ ret.apply_windowing
    /\ ret.out.exc = "none"
    /\ ret.out.value # None
    /\ "variable_window" \in ret.out.value.dims

(***************************************************************************)
(* The contents of a sample, and the indices of a forecast layout.         *)
(***************************************************************************)
\* C18: for a plain time series, sample(idx) holds the state steps idx and
\* idx+1 as init_states, the steps idx+2 .. idx+1+ar_steps as target_states,
\* and batch_times[i] is the time label of the state at index idx+2+i, for
\* every i in 0 .. ar_steps-1.
C18_SampleContents ==
    (/\ ret.op = "__getitem__" /\ PlainTimeSeries
     /\ ret.idx < LenOf(ds) /\ ret.out.exc = "none")
    =>  /\ ret.out.value.init_states.src = << <<ret.idx>>, <<ret.idx + 1>> >>
        /\ ret.out.value.target_states.src =
               [i \in 1..ds.ar_steps |-> <<ret.idx + 1 + i>>]
        /\ ret.out.value.batch_times =
               [i \in 1..ds.ar_steps |-> ds.da_state.time[ret.idx + 2 + i].t]

\* what the code keeps of C18: a sample returned for an index whose slices lie
\* inside the time axis has these contents, and any sample returned holds the
\* state steps from idx on, with batch_times the labels of its target steps
C18_ContentsInside ==
    /\ (/\ ret.op = "__getitem__" /\ PlainTimeSeries
        /\ ret.idx + ds.ar_steps + ds.forcing_window_size + 1 <= Len(ds.da_state.time))
       =>  /\ ret.out.exc = "none"
           /\ ret.out.value.init_states.src = << <<ret.idx>>, <<ret.idx + 1>> >>
           /\ ret.out.value.target_states.src =
                  [i \in 1..ds.ar_steps |-> <<ret.idx + 1 + i>>]
           /\ ret.out.value.batch_times =
                  [i \in 1..ds.ar_steps |-> ds.da_state.time[ret.idx + 2 + i].t]
    /\ (ret.op = "__getitem__" /\ PlainTimeSeries /\ ret.out.exc = "none")
       =>  /\ ret.out.value.init_states.src = << <<ret.idx>>, <<ret.idx + 1>> >>
           /\ \A i \in 1..Len(ret.out.value.batch_times) :
                  /\ ret.out.value.target_states.src[i] = <<ret.idx + 1 + i>>
                  /\ ret.out.value.batch_times[i] = ds.da_state.time[ret.idx + 2 + i].t

\* a sample of 2 target steps, with its contents
C18_FullSample ==
    /\ ret.op = "__getitem__" /\ PlainTimeSeries
    /\ ret.idx = 1
    /\ ret.out.exc = "none"
    /\ ret.out.value.batch_times = <<3, 4>>

\* C20: for a forecast layout with A analysis times and M ensemble members
\* length() is A * M, and sample(idx) accepts every idx with 0 <= idx <
\* length(): it selects an analysis time that exists and one member in 0..M-1.
C20_EnsembleIndices ==
    /\ (ret.op = "__len__" /\ ds.datastore.is_forecast /\ ds.datastore.is_ensemble)
       => ret.out.value = Len(ds.da_state.analysis) * ds.da_state.members
    /\ (/\ ret.op = "__getitem__"
        /\ ds.datastore.is_forecast /\ ds.datastore.is_ensemble
        /\ ds.da_forcing # None /\ "ensemble_member" \notin ds.da_forcing.dims
        /\ ret.idx < LenOf(ds))
       => /\ ret.out.exc = "none"
          /\ \A i \in 1..2 : ret.out.value.init_states.src[i][2] \in
                                 0..(ds.da_state.members - 1)

\* what the code keeps of C20: length() is A * M, the indices below A are
\* accepted, those from A on raise IndexError
C20_AnalysisIndices ==
    /\ (ret.op = "__len__" /\ ds.datastore.is_forecast /\ ds.datastore.is_ensemble)
       => ret.out.value = Len(ds.da_state.analysis) * ds.da_state.members
    /\ (/\ ret.op = "__getitem__"
        /\ ds.datastore.is_forecast /\ ds.datastore.is_ensemble
        /\ ds.da_forcing # None /\ "ensemble_member" \notin ds.da_forcing.dims)
       => IF ret.idx < Len(ds.da_state.analysis)
          THEN /\ ret.out.exc = "none"
               /\ \A i \in 1..2 : ret.out.value.init_states.src[i][2] \in
                                      0..(ds.da_state.members - 1)
          ELSE ret.out.exc = "IndexError"

\* an index below length() was refused: 2 analysis times, 2 members, index 2
C20_Refused ==
    /\ ret.op = "__getitem__"
    /\ ds.datastore.is_forecast
    /\ Len(ds.da_state.analysis) = 2 /\ ds.da_state.members = 2
    /\ ds.da_forcing # None /\ "ensemble_member" \notin ds.da_forcing.dims
    /\ ret.idx = 2
    /\ ret.out.exc = "IndexError"

(***************************************************************************)
(* apply_window for every window size.                                     *)
(***************************************************************************)
\* C19: for every configured window w >= 1, odd or even, apply_window returns
\* one time entry per state time step of the split, each holding w snapshots
\* of every forcing variable.
C19_WindowPerStep ==
    (ret.op = "apply_window" /\ dataset.time # <<>>) =>
        /\ ret.out.exc = "none"
        /\ Len(ret.out.value.time) = Len(StateTimes)
        /\ \A t \in 1..Len(ret.out.value.time) :
               Len(ret.out.value.time[t].src) = config.window.val * dataset.nvars

\* what the code returns: one entry per state step for an odd window of 3 or
\* more, no entry at all for the windows 1 and 2, and one entry too many for
\* an even window of 4 or more
C19_TrimmedLength ==
    (ret.op = "apply_window" /\ dataset.time # <<>>) =>
        /\ ret.out.exc = "none"
        /\ Len(ret.out.value.time) =
               IF config.window.val \in {1, 2} THEN 0
               ELSE IF config.window.val % 2 = 1 THEN Len(StateTimes)
               ELSE Len(StateTimes) + 1

\* a window of 1 left no time step of a split of 3
C19_EmptyAxis ==
    /\ ret.op = "apply_window"
    /\ config.window.val = 1
    /\ Len(StateTimes) = 3
    /\ ret.out.exc = "none"
    /\ ret.out.value.time = <<>>

====
